---------------------------- MODULE Spec2Model ----------------------------
(***************************************************************************)
(* A model of partitura/match.py: the match-file line parser.              *)
(*                                                                         *)
(* Text is a sequence of one-character strings.  An interpreted field is a *)
(* tagged value: an int, a float (held as the exact fraction n/d of the    *)
(* decimal or rational literal it was read from), a str, or None.          *)
(* Exceptions are outcomes: every operation returns a record whose exc     *)
(* field names the exception it raised, or "none".                         *)
(***************************************************************************)
EXTENDS Integers, Sequences, FiniteSets, TLC

VARIABLES
    call,       \* the function under execution and its arguments
    pc,         \* "call" before the function has run, "loop" inside
                \* parse_matchline's for loop, "done" after return or raise
    idx,        \* parse_matchline: index of the next from_matchline method
    matchline,  \* parse_matchline: the local `matchline` (False or a record)
    ret,        \* the outcome of the call: what it returned or raised
    text        \* the outcome of reading the returned record's matchline

vars == <<call, pc, idx, matchline, ret, text>>

(***************************************************************************)
(* Bounds of the model.                                                    *)
(***************************************************************************)
MaxParts == 2       \* parts of an 'A+B+...' token
MaxOctave == 4      \* octaves -2 .. MaxOctave given to pitch_name_2_midi_PC
MaxMidi == 66       \* MIDI numbers 59 .. MaxMidi given to MatchPnote
MaxPad == 1         \* stray characters put before / after a line
MaxBackfillMidi == 127  \* MIDI numbers 0 .. MaxBackfillMidi given without a spelling

(***************************************************************************)
(* Characters and text.                                                    *)
(***************************************************************************)
Digit == {"0", "1", "2", "3", "4", "5", "6", "7", "8", "9"}

DigitVal(c) ==
    CASE c = "0" -> 0 [] c = "1" -> 1 [] c = "2" -> 2 [] c = "3" -> 3
      [] c = "4" -> 4 [] c = "5" -> 5 [] c = "6" -> 6 [] c = "7" -> 7
      [] c = "8" -> 8 [] c = "9" -> 9

DigitChar(n) ==
    CASE n = 0 -> "0" [] n = 1 -> "1" [] n = 2 -> "2" [] n = 3 -> "3"
      [] n = 4 -> "4" [] n = 5 -> "5" [] n = 6 -> "6" [] n = 7 -> "7"
      [] n = 8 -> "8" [] n = 9 -> "9"

Whitespace == {" "}

IsDigits(s) == Len(s) > 0 /\ \A k \in 1..Len(s) : s[k] \in Digit

RECURSIVE DigitsVal(_)
DigitsVal(s) ==
    IF Len(s) = 0 THEN 0
    ELSE 10 * DigitsVal(SubSeq(s, 1, Len(s) - 1)) + DigitVal(s[Len(s)])

RECURSIVE NatStr(_)
NatStr(n) == IF n < 10 THEN <<DigitChar(n)>>
             ELSE NatStr(n \div 10) \o <<DigitChar(n % 10)>>

\* str(int)
IntStr(n) == IF n < 0 THEN <<"-">> \o NatStr(-n) ELSE NatStr(n)

RECURSIVE LStrip(_)
LStrip(s) == IF Len(s) > 0 /\ s[1] \in Whitespace THEN LStrip(Tail(s)) ELSE s

RECURSIVE RStrip(_)
RStrip(s) == IF Len(s) > 0 /\ s[Len(s)] \in Whitespace
             THEN RStrip(SubSeq(s, 1, Len(s) - 1)) ELSE s

Strip(s) == RStrip(LStrip(s))

\* The first index of character c in s, or 0.
RECURSIVE IndexFrom(_, _, _)
IndexFrom(s, c, k) ==
    IF k > Len(s) THEN 0 ELSE IF s[k] = c THEN k ELSE IndexFrom(s, c, k + 1)

\* str.split(c)
RECURSIVE Split(_, _)
Split(s, c) ==
    LET k == IndexFrom(s, c, 1)
    IN IF k = 0 THEN <<s>>
       ELSE <<SubSeq(s, 1, k - 1)>> \o Split(SubSeq(s, k + 1, Len(s)), c)

\* c.join(parts)
RECURSIVE Join(_, _)
Join(parts, c) ==
    IF Len(parts) = 0 THEN <<>>
    ELSE IF Len(parts) = 1 THEN parts[1]
    ELSE parts[1] \o <<c>> \o Join(Tail(parts), c)

RECURSIVE Gcd(_, _)
Gcd(a, b) == IF b = 0 THEN a ELSE Gcd(b, a % b)

Abs(n) == IF n < 0 THEN -n ELSE n

RECURSIVE Pow10(_)
Pow10(k) == IF k = 0 THEN 1 ELSE 10 * Pow10(k - 1)

(***************************************************************************)
(* Values.                                                                 *)
(***************************************************************************)
IntV(n) == [t |-> "int", n |-> n, d |-> 1, s |-> <<>>]
FloatV(n, d) ==
    LET g == Gcd(Abs(n), d)
    IN [t |-> "float", n |-> n \div g, d |-> d \div g, s |-> <<>>]
StrV(s) == [t |-> "str", n |-> 0, d |-> 1, s |-> s]
None == [t |-> "none", n |-> 0, d |-> 1, s |-> <<>>]

IsNumber(v) == v.t \in {"int", "float"}

\* An outcome: a returned value, or a raised exception.
Return(v) == [exc |-> "none", val |-> v]
Raise(e) == [exc |-> e, val |-> None]

(***************************************************************************)
(* int(str) and float(str) on the model's alphabet: optional surrounding   *)
(* whitespace, an optional sign, decimal digits, one optional point.       *)
(***************************************************************************)
Unsigned(s) == IF Len(s) > 0 /\ s[1] \in {"+", "-"} THEN Tail(s) ELSE s
Sign(s) == IF Len(s) > 0 /\ s[1] = "-" THEN -1 ELSE 1

IsIntLiteral(s) == IsDigits(Unsigned(Strip(s)))
IntOf(s) == Sign(Strip(s)) * DigitsVal(Unsigned(Strip(s)))

IsFloatLiteral(s) ==
    LET u == Unsigned(Strip(s))
        p == IndexFrom(u, ".", 1)
        ip == SubSeq(u, 1, p - 1)
        fp == SubSeq(u, p + 1, Len(u))
    IN IF p = 0 THEN IsDigits(u)
       ELSE /\ Len(ip) + Len(fp) > 0
            /\ \A k \in 1..Len(ip) : ip[k] \in Digit
            /\ \A k \in 1..Len(fp) : fp[k] \in Digit

FloatOf(s) ==
    LET u == Unsigned(Strip(s))
        p == IndexFrom(u, ".", 1)
        ip == IF p = 0 THEN u ELSE SubSeq(u, 1, p - 1)
        fp == IF p = 0 THEN <<>> ELSE SubSeq(u, p + 1, Len(u))
    IN FloatV(Sign(Strip(s)) * DigitsVal(ip \o fp), Pow10(Len(fp)))

\* interpret_field on a text token: int, else float, else the token.
interpret_field(data) ==
    IF IsIntLiteral(data) THEN IntV(IntOf(data))
    ELSE IF IsFloatLiteral(data) THEN FloatV(FloatOf(data).n, FloatOf(data).d)
    ELSE StrV(data)

\* rational_pattern = '^([0-9]+)/([0-9]+)$': the two groups, or <<>>.
rational_pattern(v) ==
    LET p == IndexFrom(v, "/", 1)
        g1 == SubSeq(v, 1, p - 1)
        g2 == SubSeq(v, p + 1, Len(v))
    IN IF p > 0 /\ IsDigits(g1) /\ IsDigits(g2) THEN <<g1, g2>> ELSE <<>>

\* float(a) / float(b)
FloatDiv(a, b) ==
    IF b = 0 THEN Raise("ZeroDivisionError") ELSE Return(FloatV(a, b))

\* sum(iparts) of numbers: an int if every part is an int, else a float.
RECURSIVE SumValues(_)
SumValues(vs) ==
    IF Len(vs) = 0 THEN IntV(0)
    ELSE LET a == vs[1]
             b == SumValues(Tail(vs))
         IN IF a.t = "int" /\ b.t = "int" THEN IntV(a.n + b.n)
            ELSE FloatV(a.n * b.d + b.n * a.d, a.d * b.d)

\* interpret_field_rational(data, allow_additions=False)
interpret_field_rational_noadd(data) ==
    LET interpreted(v, m) ==
            IF v.t = "str"
            THEN IF m # <<>> THEN FloatDiv(DigitsVal(m[1]), DigitsVal(m[2]))
                 ELSE Return(v)
            ELSE Return(v)
    IN interpreted(interpret_field(data), rational_pattern(data))

\* interpret_field_rational(data, allow_additions)
interpret_field_rational(data, allow_additions) ==
    LET summed(v, iparts) ==
            LET raised == {k \in DOMAIN iparts : iparts[k].exc # "none"}
            IN IF raised # {}
               THEN iparts[CHOOSE k \in raised : \A j \in raised : k <= j]
               ELSE IF \A k \in DOMAIN iparts : IsNumber(iparts[k].val)
                    THEN Return(SumValues([k \in DOMAIN iparts |-> iparts[k].val]))
                    ELSE Return(v)
        added(v, parts) ==
            IF Len(parts) > 1
            THEN summed(v, [k \in 1..Len(parts) |->
                               interpret_field_rational_noadd(parts[k])])
            ELSE Return(v)
        interpreted(v, m) ==
            IF v.t = "str"
            THEN IF m # <<>> THEN FloatDiv(DigitsVal(m[1]), DigitsVal(m[2]))
                 ELSE IF allow_additions THEN added(v, Split(data, "+"))
                 ELSE Return(v)
            ELSE Return(v)
    IN interpreted(interpret_field(data), rational_pattern(data))

(***************************************************************************)
(* The pitch model.                                                        *)
(***************************************************************************)
LowerCase == <<"a", "b", "c", "d", "e", "f", "g", "h", "i", "j", "k", "l", "m",
               "n", "o", "p", "q", "r", "s", "t", "u", "v", "w", "x", "y", "z">>
UpperCase == <<"A", "B", "C", "D", "E", "F", "G", "H", "I", "J", "K", "L", "M",
               "N", "O", "P", "Q", "R", "S", "T", "U", "V", "W", "X", "Y", "Z">>

UpperChar(c) ==
    IF \E k \in 1..Len(LowerCase) : LowerCase[k] = c
    THEN UpperCase[CHOOSE k \in 1..Len(LowerCase) : LowerCase[k] = c] ELSE c
LowerChar(c) ==
    IF \E k \in 1..Len(UpperCase) : UpperCase[k] = c
    THEN LowerCase[CHOOSE k \in 1..Len(UpperCase) : UpperCase[k] = c] ELSE c

\* str.upper(), str.lower()
Upper(s) == [k \in 1..Len(s) |-> UpperChar(s[k])]
Lower(s) == [k \in 1..Len(s) |-> LowerChar(s[k])]

PITCH_CLASSES ==
    << <<"C", "n">>, <<"C", "#">>, <<"D", "n">>, <<"D", "#">>, <<"E", "n">>,
       <<"F", "n">>, <<"F", "#">>, <<"G", "n">>, <<"G", "#">>, <<"A", "n">>,
       <<"A", "#">>, <<"B", "n">> >>

\* The table read one entry further on.
PC_DICT_shifted(k) == PITCH_CLASSES[((k + 1) % 12) + 1]

\* PC_DICT = dict(zip(range(12), PITCH_CLASSES))
PC_DICT(k) == PITCH_CLASSES[k + 1]

NOTE_NAMES == { <<"C">>, <<"D">>, <<"E">>, <<"F">>, <<"G">>, <<"A">>, <<"B">> }

\* The two dict literals of pitch_name_2_midi_PC.
NameTable == { <<"c">>, <<"d">>, <<"e">>, <<"f">>, <<"g">>, <<"a">>, <<"b">> }
NameBase(n) ==
    CASE n = <<"c">> -> 0 [] n = <<"d">> -> 2 [] n = <<"e">> -> 4
      [] n = <<"f">> -> 5 [] n = <<"g">> -> 7 [] n = <<"a">> -> 9
      [] n = <<"b">> -> 11
ModifierTable == { <<"b">>, <<"b", "b">>, <<"#">>, <<"x">>, <<"#", "#">>, <<"n">> }
ModifierOffset(m) ==
    CASE m = <<"b">> -> -1 [] m = <<"b", "b">> -> -2 [] m = <<"#">> -> 1
      [] m = <<"x">> -> 2 [] m = <<"#", "#">> -> 2 [] m = <<"n">> -> 0

\* The remainder with the sign of the dividend.
TruncMod12(a) == IF a < 0 THEN -((-a) % 12) ELSE a % 12

\* np.mod(a, 12): the result has the sign of the divisor.
NpMod12(a) == a % 12

PitchResult(e, mid, pitchclass) == [exc |-> e, mid |-> mid, pitchclass |-> pitchclass]

\* pitch_name_2_midi_PC(modifier, name, octave), name a str and octave an
\* int; modifier is any value (a dict key that is absent raises KeyError).
pitch_name_2_midi_PC(modifier, name, octave) ==
    IF name = <<"r">> THEN PitchResult("none", 0, 0)
    ELSE IF Lower(name) \notin NameTable THEN PitchResult("KeyError", 0, 0)
    ELSE IF modifier.t # "str" \/ modifier.s \notin ModifierTable
         THEN PitchResult("KeyError", 0, 0)
    ELSE LET base_class == NameBase(Lower(name)) + ModifierOffset(modifier.s)
             mid == (octave + 1) * 12 + base_class
             pitchclass == NpMod12(base_class)
         IN PitchResult("none", mid, pitchclass)

(***************************************************************************)
(* MatchPnote.__init__                                                     *)
(***************************************************************************)
LATEST_VERSION == 5
LEGACY_VERSION == 1

\* int(v): truncation of a float, int(str) of a str, TypeError for None.
Trunc(n, d) == IF n < 0 THEN -((-n) \div d) ELSE n \div d
IntCast(v) ==
    CASE v.t = "int" -> Return(v)
      [] v.t = "float" -> Return(IntV(Trunc(v.n, v.d)))
      [] v.t = "str" -> IF IsIntLiteral(v.s) THEN Return(IntV(IntOf(v.s)))
                        ELSE Raise("ValueError")
      [] v.t = "none" -> Raise("TypeError")

NoMidiPitch == <<>>

Pnote(Number, NoteName, Modifier, Octave, Onset, Offset, AdjOffset, Velocity, MidiPitch, version) ==
    [Number |-> Number, NoteName |-> NoteName, Modifier |-> Modifier,
     Octave |-> Octave, Onset |-> Onset, Offset |-> Offset,
     AdjOffset |-> AdjOffset, Velocity |-> Velocity, MidiPitch |-> MidiPitch,
     version |-> version]

NoPnote == Pnote(None, None, None, None, None, None, None, None, NoMidiPitch, 0)

Built(e, obj) == [exc |-> e, obj |-> obj]

\* A spelling counts as given only when all three of its parts are.
HasSpellingAnyPart(NoteName, Modifier, Octave) ==
    ~(NoteName = None /\ Modifier = None /\ Octave = None)

\* has_pitch_spelling = not (NoteName is None or Modifier is None or
\*                           Octave is None)
HasPitchSpelling(NoteName, Modifier, Octave) ==
    ~(NoteName = None \/ Modifier = None \/ Octave = None)

MidiNeverDiffers(MidiPitch, mid) == FALSE

\* MidiPitch != pitch_name_2_midi_PC(...)[0]
MidiDiffers(MidiPitch, mid) == MidiPitch.n # mid

\* MatchPnote(Number, NoteName, Modifier, Octave, Onset, Offset, AdjOffset,
\*            Velocity, MidiPitch, version); MidiPitch is None or an int.
MatchPnote_init(Number, NoteName, Modifier, Octave, Onset, Offset, AdjOffset, Velocity, MidiPitch, version) ==
    LET has_pitch_spelling == HasPitchSpelling(NoteName, Modifier, Octave)
        has_midi_pitch == MidiPitch # None
        oct == IntCast(Octave)
        selfNoteName == IF has_pitch_spelling THEN StrV(Upper(NoteName.s))
                        ELSE StrV(<<PC_DICT(NpMod12(MidiPitch.n))[1]>>)
        selfModifier == IF has_pitch_spelling THEN Modifier
                        ELSE StrV(<<PC_DICT(NpMod12(MidiPitch.n))[2]>>)
        selfOctave == IF has_pitch_spelling THEN oct.val
                      ELSE IntV(MidiPitch.n \div 12 - 1)
        pitch == pitch_name_2_midi_PC(selfModifier, selfNoteName.s, selfOctave.n)
        selfMidiPitch == IF has_midi_pitch
                         THEN <<MidiPitch.n, NpMod12(MidiPitch.n)>>
                         ELSE NoMidiPitch
        selfAdjOffset == IF AdjOffset = None THEN Offset ELSE AdjOffset
        vel == IntCast(Velocity)
    IN IF ~has_pitch_spelling /\ ~has_midi_pitch THEN Built("ValueError", NoPnote)
       ELSE IF has_pitch_spelling /\ NoteName.t # "str"
            THEN Built("AttributeError", NoPnote)
       ELSE IF has_pitch_spelling /\ Upper(NoteName.s) \notin NOTE_NAMES
            THEN Built("ValueError", NoPnote)
       ELSE IF has_pitch_spelling /\ oct.exc # "none" THEN Built(oct.exc, NoPnote)
       ELSE IF has_midi_pitch /\ pitch.exc # "none" THEN Built(pitch.exc, NoPnote)
       ELSE IF has_midi_pitch /\ MidiDiffers(MidiPitch, pitch.mid)
            THEN Built("ValueError", NoPnote)
       ELSE IF vel.exc # "none" THEN Built(vel.exc, NoPnote)
       ELSE Built("none",
                  Pnote(Number, selfNoteName, selfModifier, selfOctave, Onset,
                        Offset, selfAdjOffset, vel.val, selfMidiPitch, version))

(***************************************************************************)
(* Regular expressions.  A pattern is a sequence of elements: a literal    *)
(* string, any one character ('.'), or a greedy repetition of a character  *)
(* class (min 0 for '*', 1 for '+'), captured as a group or not.           *)
(* Matching is re's backtracking search: leftmost start, longest           *)
(* repetition first.  The search is carried as the sequence of the         *)
(* attempts still alive, in the order backtracking would try them, so the  *)
(* first attempt that survives the whole pattern is re's match.            *)
(***************************************************************************)
Lit(chars) == << [k |-> "lit", c |-> chars, cls |-> "", min |-> 0, cap |-> FALSE] >>
AnyChar == << [k |-> "any", c |-> <<>>, cls |-> "", min |-> 0, cap |-> FALSE] >>
Rep(cls, min, cap) == << [k |-> "rep", c |-> <<>>, cls |-> cls, min |-> min, cap |-> cap] >>

InClass(c, cls) ==
    CASE cls = "notcomma" -> c # ","
      [] cls = "notrparen" -> c # ")"
      [] cls = "space" -> c \in Whitespace
      [] cls = "any" -> TRUE

\* The number of consecutive characters of the class from position pos.
RunLength(s, pos, cls) ==
    LET stops == {k \in pos..Len(s) : ~InClass(s[k], cls)}
    IN IF stops = {} THEN Len(s) - pos + 1
       ELSE (CHOOSE k \in stops : \A j \in stops : k <= j) - pos

\* Whether the characters of s from position pos on are those of chars.
StartsWith(s, pos, chars) ==
    /\ pos + Len(chars) - 1 <= Len(s)
    /\ \A k \in 1..Len(chars) : s[pos + k - 1] = chars[k]

NoMatch == [ok |-> FALSE, end |-> 0, groups |-> <<>>]

\* One attempt of the search: the next position of s and the groups so far.
Attempt(pos, caps) == [pos |-> pos, caps |-> caps]

\* The ways element e matches at attempt t, the preferred first: a
\* repetition prefers the longest run.
Expand(e, s, t) ==
    LET run == RunLength(s, t.pos, e.cls)
        taken(n) == IF e.cap THEN Append(t.caps, SubSeq(s, t.pos, t.pos + n - 1))
                    ELSE t.caps
    IN CASE e.k = "lit" ->
                IF StartsWith(s, t.pos, e.c)
                THEN << Attempt(t.pos + Len(e.c), t.caps) >> ELSE <<>>
         [] e.k = "any" ->
                IF t.pos <= Len(s) THEN << Attempt(t.pos + 1, t.caps) >> ELSE <<>>
         [] e.k = "rep" ->
                IF run < e.min THEN <<>>
                ELSE [j \in 1..(run - e.min + 1) |->
                         Attempt(t.pos + (run - j + 1), taken(run - j + 1))]

\* Element e applied to the attempts lo..hi, order kept.
RECURSIVE Advance(_, _, _, _, _)
Advance(e, s, attempts, lo, hi) ==
    IF lo > hi THEN <<>>
    ELSE IF lo = hi THEN Expand(e, s, attempts[lo])
    ELSE Advance(e, s, attempts, lo, (lo + hi) \div 2)
         \o Advance(e, s, attempts, (lo + hi) \div 2 + 1, hi)

\* The attempts alive after the pattern's elements lo..hi, in order.
RECURSIVE MatchFrom(_, _, _, _, _)
MatchFrom(pat, lo, hi, s, attempts) ==
    IF lo > hi \/ attempts = <<>> THEN attempts
    ELSE IF lo = hi THEN Advance(pat[lo], s, attempts, 1, Len(attempts))
    ELSE MatchFrom(pat, (lo + hi) \div 2 + 1, hi, s,
                   MatchFrom(pat, lo, (lo + hi) \div 2, s, attempts))

\* re_obj.search(s, pos): the match at the first position from pos where
\* the pattern matches; pos counts from 0.
Search(pat, s, pos) ==
    LET first(alive) ==
            IF alive = <<>> THEN NoMatch
            ELSE [ok |-> TRUE, end |-> alive[1].pos, groups |-> alive[1].caps]
    IN first(MatchFrom(pat, 1, Len(pat), s,
                       [j \in 1..(Len(s) - pos + 1) |-> Attempt(pos + j, <<>>)]))

(***************************************************************************)
(* The grammars.                                                           *)
(***************************************************************************)
Field == Rep("notcomma", 1, TRUE)       \* ([^,]+)
OptField == Rep("notcomma", 0, TRUE)    \* ([^,]*)
Spaces == Rep("space", 0, FALSE)        \* \s*
Comma == Lit(<<",">>)

\* MatchInfo.pattern
MatchInfo_pattern ==
    Lit(<<"i", "n", "f", "o", "(">>) \o Spaces \o Field \o Spaces \o Comma \o Spaces
    \o Rep("any", 1, TRUE) \o Spaces \o Lit(<<")", ".">>)

\* MatchMeta.pattern
MatchMeta_pattern ==
    Lit(<<"m", "e", "t", "a", "(">>) \o Spaces \o OptField \o Spaces \o Comma \o Spaces
    \o OptField \o Spaces \o Comma \o Spaces \o OptField \o Spaces \o Comma
    \o Spaces \o OptField \o Spaces \o Lit(<<")", ".">>)

\* MatchSnote.pattern
MatchSnote_pattern ==
    Lit(<<"s", "n", "o", "t", "e", "(">>) \o Field \o Lit(<<",", "[">>) \o Field \o Comma \o Field
    \o Lit(<<"]", ",">>) \o Field \o Comma \o Field \o Lit(<<":">>) \o Field \o Comma
    \o Field \o Comma \o Field \o Comma \o Field \o Comma \o Field
    \o Lit(<<",", "[">>) \o Rep("any", 0, TRUE) \o Lit(<<"]", ")">>)

\* MatchPnote.pattern
MatchPnote_pattern ==
    Lit(<<"n", "o", "t", "e", "(">>) \o Field \o Lit(<<",", "[">>) \o Field \o Comma \o Field
    \o Lit(<<"]", ",">>) \o Field \o Comma \o Field \o Comma \o Field \o Comma
    \o Field \o Comma \o Field \o Lit(<<")">>)

\* MatchPnote.pattern_v1
MatchPnote_pattern_v1 ==
    Lit(<<"n", "o", "t", "e", "(">>) \o Field \o Lit(<<",", "[">>) \o Field \o Comma \o Field
    \o Lit(<<"]", ",">>) \o Field \o Comma \o Field \o Comma \o Field \o Comma
    \o Field \o Lit(<<")">>)

\* MatchSnoteNote.pattern
MatchSnoteNote_pattern == MatchSnote_pattern \o Lit(<<"-">>) \o MatchPnote_pattern

\* MatchSnoteNote.pattern_v1 = MatchPnote.pattern + '-' + MatchPnote.pattern_v1
MatchSnoteNote_pattern_v1 ==
    MatchPnote_pattern \o Lit(<<"-">>) \o MatchPnote_pattern_v1

\* MatchSnoteDeletion.pattern
MatchSnoteDeletion_pattern == MatchSnote_pattern \o Lit(<<"-", "d", "e", "l", "e", "t", "i", "o", "n", ".">>)

\* MatchInsertionNote.pattern: the final '.' is not escaped
MatchInsertionNote_pattern == Lit(<<"i", "n", "s", "e", "r", "t", "i", "o", "n", "-">>) \o MatchPnote_pattern \o AnyChar

\* MatchSustainPedal.pattern
MatchSustainPedal_pattern ==
    Lit(<<"s", "u", "s", "t", "a", "i", "n", "(">>) \o Spaces \o OptField \o Spaces \o Comma \o Spaces
    \o OptField \o Spaces \o Lit(<<")", ".">>)

\* MatchSoftPedal.pattern
MatchSoftPedal_pattern ==
    Lit(<<"s", "o", "f", "t", "(">>) \o Spaces \o OptField \o Spaces \o Comma \o Spaces
    \o OptField \o Spaces \o Lit(<<")", ".">>)

(***************************************************************************)
(* Rendering values as text.                                               *)
(***************************************************************************)
RECURSIVE ZeroPad(_, _)
ZeroPad(s, width) == IF Len(s) >= width THEN s ELSE ZeroPad(<<"0">> \o s, width)

IsPow2(d) == d \in {1, 2, 4, 8, 16, 32, 64, 128, 256, 512, 1024}

\* The decimal places a float with denominator d needs; -1 when its value
\* is no short decimal.
DecimalPlaces(d) ==
    IF \E k \in 0..6 : Pow10(k) % d = 0
    THEN CHOOSE k \in 0..6 : Pow10(k) % d = 0 /\ \A j \in 0..(k - 1) : Pow10(j) % d # 0
    ELSE -1

\* repr of the double nearest to n/d, for the fractions that are no short
\* decimal.
InexactRepr(n, d) ==
    CASE n = 1 /\ d = 3 -> <<"0", ".", "3", "3", "3", "3", "3", "3", "3", "3", "3", "3", "3", "3", "3", "3", "3", "3">>

\* str(Fraction.from_float(x)) of the double nearest to n/d, d no power of 2.
InexactFraction(n, d) ==
    CASE n = 1 /\ d = 3 -> <<"6", "0", "0", "4", "7", "9", "9", "5", "0", "3", "1", "6", "0", "6", "6", "1", "/", "1", "8", "0", "1", "4", "3", "9", "8", "5", "0", "9", "4", "8", "1", "9", "8", "4">>

\* repr(float): the shortest decimal that reads back as the same double.
FloatRepr(n, d) ==
    LET k == DecimalPlaces(d)
        scaled == (Abs(n) * Pow10(k)) \div d
        ip == scaled \div Pow10(k)
        fp == scaled % Pow10(k)
    IN IF k = -1 THEN InexactRepr(n, d)
       ELSE (IF n < 0 THEN <<"-">> ELSE <<>>) \o NatStr(ip) \o <<".">>
            \o (IF k = 0 THEN <<"0">> ELSE ZeroPad(NatStr(fp), k))

\* '{}'.format(v)
Format(v) ==
    CASE v.t = "int" -> IntStr(v.n)
      [] v.t = "float" -> FloatRepr(v.n, v.d)
      [] v.t = "str" -> v.s
      [] v.t = "none" -> <<"N", "o", "n", "e">>

\* str(Fraction.from_float(v)): the exact value of the double in lowest
\* terms; an int is taken as it is; anything else raises TypeError.
FractionStr(v) ==
    CASE v.t = "int" -> Return(StrV(IntStr(v.n)))
      [] v.t = "float" ->
            IF ~IsPow2(v.d) THEN Return(StrV(InexactFraction(v.n, v.d)))
            ELSE IF v.d = 1 THEN Return(StrV(IntStr(v.n)))
            ELSE Return(StrV(IntStr(v.n) \o <<"/">> \o NatStr(v.d)))
      [] v.t \in {"str", "none"} -> Raise("TypeError")

(***************************************************************************)
(* Keyword arguments: dict(zip(field_names, groups)).                      *)
(***************************************************************************)
Min(a, b) == IF a < b THEN a ELSE b

Zip(names, values) ==
    [n \in {names[k] : k \in 1..Min(Len(names), Len(values))} |->
        values[CHOOSE k \in 1..Len(names) : names[k] = n]]

\* [cls.field_interpreter(i) for i in match_pattern.groups()]: the values,
\* or the first exception raised.
InterpretGroups(groups) ==
    LET collected(outs) ==
            LET raised == {k \in DOMAIN outs : outs[k].exc # "none"}
            IN IF raised # {}
               THEN [exc |-> outs[CHOOSE k \in raised : \A j \in raised : k <= j].exc,
                     vals |-> <<>>]
               ELSE [exc |-> "none", vals |-> [k \in DOMAIN outs |-> outs[k].val]]
    IN collected([k \in 1..Len(groups) |-> interpret_field_rational(groups[k], FALSE)])

(***************************************************************************)
(* MatchSnote                                                              *)
(***************************************************************************)
MatchSnote_field_names ==
    <<"Anchor", "NoteName", "Modifier", "Octave", "Bar", "Beat", "Offset",
      "Duration", "OnsetInBeats", "OffsetInBeats", "ScoreAttributesList">>

Snote(Anchor, NoteName, Modifier, Octave, Bar, Beat, Offset, Duration, OnsetInBeats, OffsetInBeats, ScoreAttributesList) ==
    [Anchor |-> Anchor, NoteName |-> NoteName, Modifier |-> Modifier,
     Octave |-> Octave, Bar |-> Bar, Beat |-> Beat, Offset |-> Offset,
     Duration |-> Duration, OnsetInBeats |-> OnsetInBeats,
     OffsetInBeats |-> OffsetInBeats,
     ScoreAttributesList |-> ScoreAttributesList]

NoSnote == Snote(None, None, None, None, None, None, None, None, None, None, <<>>)

\* MatchSnote.__init__; ScoreAttributesList is an interpreted group (never
\* a list), so only a str is accepted.
MatchSnote_init(Anchor, NoteName, Modifier, Octave, Bar, Beat, Offset, Duration, OnsetInBeats, OffsetInBeats, ScoreAttributesList) ==
    LET oct == IntCast(Octave)
    IN IF oct.exc # "none" THEN Built(oct.exc, NoSnote)
       ELSE IF ScoreAttributesList.t # "str" THEN Built("ValueError", NoSnote)
       ELSE Built("none",
                  Snote(Anchor, NoteName, Modifier, oct.val, Bar, Beat, Offset,
                        Duration, OnsetInBeats, OffsetInBeats,
                        Split(ScoreAttributesList.s, ",")))

\* MatchSnote(**kwargs): every parameter but ScoreAttributesList is required.
MatchSnote_call(kwargs) ==
    IF ~({MatchSnote_field_names[k] : k \in 1..10} \subseteq DOMAIN kwargs)
    THEN Built("TypeError", NoSnote)
    ELSE MatchSnote_init(kwargs["Anchor"], kwargs["NoteName"], kwargs["Modifier"],
                         kwargs["Octave"], kwargs["Bar"], kwargs["Beat"],
                         kwargs["Offset"], kwargs["Duration"],
                         kwargs["OnsetInBeats"], kwargs["OffsetInBeats"],
                         IF "ScoreAttributesList" \in DOMAIN kwargs
                         THEN kwargs["ScoreAttributesList"] ELSE StrV(<<>>))

\* The decimal rendering of the duration.
DurationDecimal(snote) ==
    IF IsNumber(snote.Duration) THEN Return(StrV(Format(snote.Duration)))
    ELSE Return(snote.Duration)

\* MatchSnote.DurationSymbolic
DurationSymbolic(snote) ==
    IF IsNumber(snote.Duration) THEN FractionStr(snote.Duration)
    ELSE IF snote.Duration.t = "str" THEN Return(snote.Duration)
    ELSE Return(None)

\* MatchSnote.matchline
MatchSnote_matchline(snote) ==
    LET off == FractionStr(snote.Offset)
        dur == DurationSymbolic(snote)
    IN IF off.exc # "none" THEN off
       ELSE IF dur.exc # "none" THEN dur
       ELSE Return(StrV(
              <<"s", "n", "o", "t", "e", "(">> \o Format(snote.Anchor) \o <<",", "[">> \o Format(snote.NoteName)
              \o <<",">> \o Format(snote.Modifier) \o <<"]", ",">> \o Format(snote.Octave)
              \o <<",">> \o Format(snote.Bar) \o <<":">> \o Format(snote.Beat)
              \o <<",">> \o off.val.s \o <<",">> \o Format(dur.val)
              \o <<",">> \o Format(snote.OnsetInBeats)
              \o <<",">> \o Format(snote.OffsetInBeats)
              \o <<",", "[">> \o Join(snote.ScoreAttributesList, ",") \o <<"]", ")">>))

(***************************************************************************)
(* MatchPnote                                                              *)
(***************************************************************************)
MatchPnote_field_names ==
    <<"Number", "NoteName", "Modifier", "Octave", "Onset", "Offset",
      "AdjOffset", "Velocity">>
MatchPnote_field_names_v1 ==
    <<"Number", "NoteName", "Modifier", "Octave", "Onset", "Offset",
      "Velocity">>

\* MatchPnote(**kwargs): MidiPitch and version have defaults.
MatchPnote_call(kwargs) ==
    IF ~({MatchPnote_field_names[k] : k \in 1..8} \subseteq DOMAIN kwargs)
    THEN Built("TypeError", NoPnote)
    ELSE MatchPnote_init(kwargs["Number"], kwargs["NoteName"], kwargs["Modifier"],
                         kwargs["Octave"], kwargs["Onset"], kwargs["Offset"],
                         kwargs["AdjOffset"], kwargs["Velocity"],
                         IF "MidiPitch" \in DOMAIN kwargs
                         THEN kwargs["MidiPitch"] ELSE None,
                         IF "version" \in DOMAIN kwargs
                         THEN kwargs["version"] ELSE LATEST_VERSION)

\* MatchPnote.matchline
MatchPnote_matchline(note) ==
    Return(StrV(
        <<"n", "o", "t", "e", "(">> \o Format(note.Number) \o <<",", "[">> \o Format(note.NoteName)
        \o <<",">> \o Format(note.Modifier) \o <<"]", ",">> \o Format(note.Octave)
        \o <<",">> \o Format(note.Onset) \o <<",">> \o Format(note.Offset)
        \o <<",">> \o Format(note.AdjOffset) \o <<",">> \o Format(note.Velocity)
        \o <<")">>))

\* The keyword arguments of the legacy branch without the version tag.
LegacyKwargsUntagged(names, values) ==
    Zip(names, values) @@ [AdjOffset |-> None]

\* kwargs = dict(zip(field_names_v1, groups)); kwargs['version'] = 1.0;
\* kwargs['AdjOffset'] = None
LegacyKwargs(names, values) ==
    Zip(names, values) @@ [version |-> LEGACY_VERSION, AdjOffset |-> None]

\* MatchPnote.from_matchline
MatchPnote_from_matchline(l) ==
    LET built(g, kwargs) ==
            IF g.exc # "none" THEN Built(g.exc, NoPnote) ELSE MatchPnote_call(kwargs)
        latest(g) == built(g, Zip(MatchPnote_field_names, g.vals))
        legacy(g) == built(g, LegacyKwargs(MatchPnote_field_names_v1, g.vals))
        searched(m, m1) ==
            IF m.ok THEN latest(InterpretGroups(m.groups))
            ELSE IF m1.ok THEN legacy(InterpretGroups(m1.groups))
            ELSE Built("MatchError", NoPnote)
    IN searched(Search(MatchPnote_pattern, l, 0), Search(MatchPnote_pattern_v1, l, 0))

(***************************************************************************)
(* The line records.  A record names its class and holds its score note,   *)
(* its performed note and its own fields; the parts a class does not have  *)
(* are NoSnote, NoPnote and <<>>.                                          *)
(***************************************************************************)
Record(kind, snote, note, fields) ==
    [kind |-> kind, snote |-> snote, note |-> note, fields |-> fields]

False == Record("False", NoSnote, NoPnote, <<>>)

\* MatchSnoteNote.__init__ with same_pitch_spelling=False
MatchSnoteNote_init_keep(snote, note) == Record("MatchSnoteNote", snote, note, <<>>)

\* MatchSnoteNote.__init__ (same_pitch_spelling=True, the default)
MatchSnoteNote_init(snote, note) ==
    Record("MatchSnoteNote", snote,
           [note EXCEPT !.NoteName = snote.NoteName,
                        !.Modifier = snote.Modifier,
                        !.Octave = snote.Octave],
           <<>>)

\* MatchSnoteNote.from_matchline
MatchSnoteNote_from_matchline(l) ==
    LET n == Len(MatchSnote_field_names)
        built(snote, note) ==
            IF snote.exc # "none" THEN Built(snote.exc, False)
            ELSE IF note.exc # "none" THEN Built(note.exc, False)
            ELSE Built("none", MatchSnoteNote_init(snote.obj, note.obj))
        split(g, latest) ==
            IF g.exc # "none" THEN Built(g.exc, False)
            ELSE built(MatchSnote_call(Zip(MatchSnote_field_names, SubSeq(g.vals, 1, n))),
                       IF latest
                       THEN MatchPnote_call(Zip(MatchPnote_field_names,
                                                SubSeq(g.vals, n + 1, Len(g.vals))))
                       ELSE MatchPnote_call(LegacyKwargs(MatchPnote_field_names_v1,
                                                         SubSeq(g.vals, n + 1, Len(g.vals)))))
        searched(m, m1) ==
            IF m.ok THEN split(InterpretGroups(m.groups), TRUE)
            ELSE IF m1.ok THEN split(InterpretGroups(m1.groups), FALSE)
            ELSE Built("MatchError", False)
    IN searched(Search(MatchSnoteNote_pattern, l, 0),
                Search(MatchSnoteNote_pattern_v1, l, 0))

\* MatchSnoteDeletion.from_matchline
MatchSnoteDeletion_from_matchline(l) ==
    LET built(snote) ==
            IF snote.exc # "none" THEN Built(snote.exc, False)
            ELSE Built("none", Record("MatchSnoteDeletion", snote.obj, NoPnote, <<>>))
        interpreted(g) ==
            IF g.exc # "none" THEN Built(g.exc, False)
            ELSE built(MatchSnote_call(Zip(MatchSnote_field_names, g.vals)))
        searched(m) ==
            IF ~m.ok THEN Built("MatchError", False)
            ELSE interpreted(InterpretGroups(m.groups))
    IN searched(Search(MatchSnoteDeletion_pattern, l, 0))

\* MatchInsertionNote.from_matchline; __init__ copies the note's fields
MatchInsertionNote_from_matchline(l) ==
    LET built(note) ==
            IF note.exc # "none" THEN Built(note.exc, False)
            ELSE Built("none",
                       Record("MatchInsertionNote", NoSnote, note.obj,
                              [k \in 1..8 |-> note.obj[MatchPnote_field_names[k]]]))
        interpreted(g) ==
            IF g.exc # "none" THEN Built(g.exc, False)
            ELSE built(MatchPnote_call(Zip(MatchPnote_field_names, g.vals)))
        searched(m) ==
            IF ~m.ok THEN Built("MatchError", False)
            ELSE interpreted(InterpretGroups(m.groups))
    IN searched(Search(MatchInsertionNote_pattern, l, 0))

\* MatchLine.from_matchline, inherited by the classes whose constructor
\* stores its fields as they are.
MatchLine_from_matchline(kind, pattern, l) ==
    LET interpreted(g) ==
            IF g.exc # "none" THEN Built(g.exc, False)
            ELSE Built("none", Record(kind, NoSnote, NoPnote, g.vals))
        searched(m) ==
            IF ~m.ok THEN Built("MatchError", False)
            ELSE interpreted(InterpretGroups(m.groups))
    IN searched(Search(pattern, l, 0))

MatchSustainPedal_from_matchline(l) ==
    MatchLine_from_matchline("MatchSustainPedal", MatchSustainPedal_pattern, l)
MatchSoftPedal_from_matchline(l) ==
    MatchLine_from_matchline("MatchSoftPedal", MatchSoftPedal_pattern, l)
MatchInfo_from_matchline(l) ==
    MatchLine_from_matchline("MatchInfo", MatchInfo_pattern, l)
MatchMeta_from_matchline(l) ==
    MatchLine_from_matchline("MatchMeta", MatchMeta_pattern, l)

\* The out_pattern of the classes with plain fields: prefix(f1,f2,...).
PlainText(prefix, fields) ==
    prefix \o Join([k \in 1..Len(fields) |-> Format(fields[k])], ",") \o <<")", ".">>

\* mo.matchline: the matchline property of what parse_matchline returned;
\* False has no such attribute.
Matchline(mo) ==
    LET sn == MatchSnote_matchline(mo.snote)
        pn == MatchPnote_matchline(mo.note)
    IN CASE mo.kind = "False" -> Raise("AttributeError")
         [] mo.kind = "MatchSnoteNote" ->
               IF sn.exc # "none" THEN sn
               ELSE Return(StrV(sn.val.s \o <<"-">> \o pn.val.s \o <<".">>))
         [] mo.kind = "MatchSnoteDeletion" ->
               IF sn.exc # "none" THEN sn
               ELSE Return(StrV(sn.val.s \o <<"-", "d", "e", "l", "e", "t", "i", "o", "n", ".">>))
         [] mo.kind = "MatchInsertionNote" ->
               Return(StrV(<<"i", "n", "s", "e", "r", "t", "i", "o", "n", "-">> \o pn.val.s \o <<".">>))
         [] mo.kind = "MatchSustainPedal" ->
               Return(StrV(PlainText(<<"s", "u", "s", "t", "a", "i", "n", "(">>, mo.fields)))
         [] mo.kind = "MatchSoftPedal" ->
               Return(StrV(PlainText(<<"s", "o", "f", "t", "(">>, mo.fields)))
         [] mo.kind = "MatchInfo" ->
               Return(StrV(PlainText(<<"i", "n", "f", "o", "(">>, mo.fields)))
         [] mo.kind = "MatchMeta" ->
               Return(StrV(PlainText(<<"m", "e", "t", "a", "(">>, mo.fields)))

(***************************************************************************)
(* Specification of interpret_field_rational over a bounded set of tokens. *)
(***************************************************************************)
AtomTokens ==
    { <<"1">>, <<"-", "2">>, <<"2", ".", "5">>, <<"1", "/", "4">>,
      <<"1", "/", "3">>, <<"1", "/", "0">>, <<"0", "/", "0">>, <<"x">>,
      <<>>, <<" ", "7", " ">>, <<".", "5">>, <<"0", "0", "7">> }

RECURSIVE SumTokens(_)
SumTokens(n) ==
    IF n <= 1 THEN AtomTokens
    ELSE SumTokens(n - 1)
         \cup { a \o <<"+">> \o b : a \in SumTokens(n - 1), b \in AtomTokens }

InitInterp ==
    /\ call \in { [fn |-> "interpret_field_rational", data |-> d,
                   allow_additions |-> a] :
                  d \in SumTokens(MaxParts), a \in BOOLEAN }
    /\ pc = "call"
    /\ idx = 0
    /\ matchline = False
    /\ ret = Return(None)
    /\ text = Return(None)

CallInterpret ==
    /\ pc = "call"
    /\ call.fn = "interpret_field_rational"
    /\ ret' = interpret_field_rational(call.data, call.allow_additions)
    /\ pc' = "done"
    /\ UNCHANGED <<call, idx, matchline, text>>

NextInterp == CallInterpret

SpecInterp == InitInterp /\ [][NextInterp]_vars

(***************************************************************************)
(* Specification of pitch_name_2_midi_PC over letters, modifiers, octaves. *)
(***************************************************************************)
PitchNames == NOTE_NAMES \cup NameTable \cup { <<"r">> }
PitchModifiers == { StrV(m) : m \in ModifierTable \cup { <<"z">> } }

InitPitch ==
    /\ call \in { [fn |-> "pitch_name_2_midi_PC", modifier |-> m, name |-> n,
                   octave |-> o] :
                  m \in PitchModifiers, n \in PitchNames,
                  o \in -2..MaxOctave }
    /\ pc = "call"
    /\ idx = 0
    /\ matchline = False
    /\ ret = Return(None)
    /\ text = Return(None)

CallPitch ==
    /\ pc = "call"
    /\ call.fn = "pitch_name_2_midi_PC"
    /\ ret' = pitch_name_2_midi_PC(call.modifier, call.name, call.octave)
    /\ pc' = "done"
    /\ UNCHANGED <<call, idx, matchline, text>>

NextPitch == CallPitch

SpecPitch == InitPitch /\ [][NextPitch]_vars

\* The letter and modifier tables as the pitch model is specified.
ExpectedBase(letter) ==
    CASE letter = <<"C">> -> 0 [] letter = <<"D">> -> 2 [] letter = <<"E">> -> 4
      [] letter = <<"F">> -> 5 [] letter = <<"G">> -> 7 [] letter = <<"A">> -> 9
      [] letter = <<"B">> -> 11
ExpectedOffset(m) ==
    CASE m = <<"b">> -> 0 - 1 [] m = <<"b", "b">> -> 0 - 2 [] m = <<"#">> -> 1
      [] m = <<"x">> -> 2 [] m = <<"#", "#">> -> 2 [] m = <<"n">> -> 0
ExpectedMidi(letter, m, octave) ==
    (octave + 1) * 12 + ExpectedBase(letter) + ExpectedOffset(m)

\* C10: for a letter C..B in either case and a modifier of the table,
\* pitch_name_2_midi_PC returns (octave + 1) * 12 + base + offset and that
\* number mod 12, which lies in 0..11; for the letter 'r' it returns (0, 0)
\* whatever the modifier and the octave.
C10_PitchFormula ==
    (pc = "done" /\ call.fn = "pitch_name_2_midi_PC") =>
        /\ (Upper(call.name) \in NOTE_NAMES /\ call.modifier.s \in ModifierTable) =>
              /\ ret.exc = "none"
              /\ ret.mid = ExpectedMidi(Upper(call.name), call.modifier.s, call.octave)
              /\ ret.pitchclass \in 0..11
              /\ ret.pitchclass = ret.mid % 12
        /\ call.name = <<"r">> => ret = PitchResult("none", 0, 0)

\* C10 witness: C double-flat in octave -1 (base + offset negative, MIDI
\* number negative) has been mapped, to pitch class 10.
C10_Witness ==
    /\ pc = "done" /\ call.fn = "pitch_name_2_midi_PC"
    /\ call.name = <<"C">> /\ call.modifier.s = <<"b", "b">> /\ call.octave = -1
    /\ ret.mid = -2 /\ ret.pitchclass = 10

(***************************************************************************)
(* Specification of the MatchPnote constructor over its pitch arguments.   *)
(***************************************************************************)
NoteNameArgs == { None, StrV(<<"E">>), StrV(<<"e">>), StrV(<<"F">>),
                  StrV(<<"B">>), StrV(<<"H">>), StrV(<<"r">>) }
ModifierArgs == { None, StrV(<<"n">>), StrV(<<"#">>), StrV(<<"b">>),
                  StrV(<<"z">>) }
OctaveArgs == { None, IntV(3), IntV(4), StrV(<<"x">>) }
MidiPitchArgs == { None } \cup { IntV(m) : m \in 59..MaxMidi }
VelocityArgs == { IntV(49), StrV(<<"f">>) }
AdjOffsetArgs == { None, IntV(3) }

InitPnote ==
    /\ call \in { [fn |-> "MatchPnote", Number |-> IntV(0), NoteName |-> n,
                   Modifier |-> m, Octave |-> o, Onset |-> IntV(1),
                   Offset |-> IntV(2), AdjOffset |-> a, Velocity |-> v,
                   MidiPitch |-> p, version |-> LATEST_VERSION] :
                  n \in NoteNameArgs, m \in ModifierArgs, o \in OctaveArgs,
                  a \in AdjOffsetArgs, v \in VelocityArgs, p \in MidiPitchArgs }
    /\ pc = "call"
    /\ idx = 0
    /\ matchline = False
    /\ ret = Return(None)
    /\ text = Return(None)

CallMatchPnote ==
    /\ pc = "call"
    /\ call.fn = "MatchPnote"
    /\ ret' = MatchPnote_init(call.Number, call.NoteName, call.Modifier,
                              call.Octave, call.Onset, call.Offset,
                              call.AdjOffset, call.Velocity, call.MidiPitch,
                              call.version)
    /\ pc' = "done"
    /\ UNCHANGED <<call, idx, matchline, text>>

NextPnote == CallMatchPnote

SpecPnote == InitPnote /\ [][NextPnote]_vars

ConstructedPnote == pc = "done" /\ call.fn = "MatchPnote"

CompleteSpelling ==
    call.NoteName # None /\ call.Modifier # None /\ call.Octave # None

\* The spelling names a pitch: a letter C..B, a modifier of the table and
\* an integer octave.
SpellingHasPitch ==
    /\ CompleteSpelling
    /\ Upper(call.NoteName.s) \in NOTE_NAMES
    /\ call.Modifier.s \in ModifierTable
    /\ call.Octave.t = "int"

SpellingAgrees ==
    /\ SpellingHasPitch
    /\ ExpectedMidi(Upper(call.NoteName.s), call.Modifier.s, call.Octave.n)
         = call.MidiPitch.n

\* C7: constructing a performed note fails with ValueError when neither a
\* complete spelling nor a MIDI number is given, fails when both are given
\* and the spelling does not map to the MIDI number (ValueError when the
\* spelling names another pitch), and succeeds, storing the MIDI number,
\* when both are given and agree (Velocity being an integer).
C7_PitchValidation ==
    ConstructedPnote =>
        /\ (~CompleteSpelling /\ call.MidiPitch = None) => ret.exc = "ValueError"
        /\ (CompleteSpelling /\ call.MidiPitch # None /\ ~SpellingAgrees) =>
              ret.exc # "none"
        /\ (SpellingHasPitch /\ call.MidiPitch # None /\ ~SpellingAgrees) =>
              ret.exc = "ValueError"
        /\ (SpellingAgrees /\ call.MidiPitch # None /\ call.Velocity.t = "int") =>
              /\ ret.exc = "none"
              /\ ret.obj.MidiPitch = <<call.MidiPitch.n, call.MidiPitch.n % 12>>

\* C7 witness: MIDI 64 with E,n,4 has been constructed, and MIDI 65 with
\* E,n,4 is among the calls (it is the rejected case of the invariant).
C7_Witness ==
    /\ ConstructedPnote
    /\ call.NoteName = StrV(<<"E">>) /\ call.Modifier = StrV(<<"n">>)
    /\ call.Octave = IntV(4) /\ call.MidiPitch = IntV(64)
    /\ ret.exc = "none" /\ ret.obj.MidiPitch = <<64, 4>>

NotALetter ==
    call.NoteName.t = "str" /\ Upper(call.NoteName.s) \notin NOTE_NAMES

\* C8 as claimed: a NoteName that is not one of the seven letters fails
\* validation whatever the other fields are.
C8_InvalidLetterAlwaysFails ==
    (ConstructedPnote /\ NotALetter) => ret.exc # "none"

\* C8 as amended: a NoteName that is not one of the seven letters fails
\* with ValueError when Modifier and Octave are both given or when no MIDI
\* number is given; when Modifier or Octave is absent and a MIDI number is
\* given the letter is not examined: construction succeeds (Velocity being
\* an integer) and the stored NoteName is the one back-filled from the MIDI
\* number.
C8_InvalidLetter ==
    (ConstructedPnote /\ NotALetter) =>
        /\ (CompleteSpelling \/ call.MidiPitch = None) => ret.exc = "ValueError"
        /\ (~CompleteSpelling /\ call.MidiPitch # None /\ call.Velocity.t = "int") =>
              /\ ret.exc = "none"
              /\ ret.obj.NoteName.s = <<PITCH_CLASSES[(call.MidiPitch.n % 12) + 1][1]>>

\* C8 witness: "H" with Octave 4 and no Modifier and MIDI 64 was accepted,
\* and stored as E.
C8_Witness ==
    /\ ConstructedPnote
    /\ call.NoteName = StrV(<<"H">>) /\ call.Modifier = None
    /\ call.Octave = IntV(4) /\ call.MidiPitch = IntV(64)
    /\ ret.exc = "none" /\ ret.obj.NoteName = StrV(<<"E">>)

\* C9: interpret_field_rational never raises: after every call on a text
\* token, with either setting of allow_additions, a value was returned.
C9_InterpretTotal ==
    (pc = "done" /\ call.fn = "interpret_field_rational") => ret.exc = "none"

(***************************************************************************)
(* The lines given to the parsers.  A line is described by its shape: the  *)
(* form of the line, the field texts of its score note, of its performed   *)
(* note or of its plain fields, and the characters before and after it.    *)
(***************************************************************************)
Shape(form, snote, note, fields, pre, post) ==
    [form |-> form, snote |-> snote, note |-> note, fields |-> fields,
     pre |-> pre, post |-> post]

SnoteText(t) ==
    <<"s", "n", "o", "t", "e", "(">> \o t[1] \o <<",", "[">> \o t[2] \o <<",">> \o t[3] \o <<"]", ",">> \o t[4]
    \o <<",">> \o t[5] \o <<":">> \o t[6] \o <<",">> \o t[7] \o <<",">> \o t[8]
    \o <<",">> \o t[9] \o <<",">> \o t[10] \o <<",", "[">> \o t[11] \o <<"]", ")">>

\* A performed note of 8 fields, or of 7 (the legacy form).
NoteText(t) ==
    <<"n", "o", "t", "e", "(">> \o t[1] \o <<",", "[">> \o t[2] \o <<",">> \o t[3] \o <<"]", ",">>
    \o Join(SubSeq(t, 4, Len(t)), ",") \o <<")">>

BodyOf(sh) ==
    CASE sh.form = "snote" -> SnoteText(sh.snote)
      [] sh.form \in {"note", "note_v1"} -> NoteText(sh.note)
      [] sh.form \in {"paired", "paired_v1"} ->
            SnoteText(sh.snote) \o <<"-">> \o NoteText(sh.note) \o <<".">>
      [] sh.form = "paired_open" ->
            SnoteText(sh.snote) \o <<"-">> \o NoteText(sh.note)
      [] sh.form = "deletion" -> SnoteText(sh.snote) \o <<"-", "d", "e", "l", "e", "t", "i", "o", "n", ".">>
      [] sh.form = "insertion" -> <<"i", "n", "s", "e", "r", "t", "i", "o", "n", "-">> \o NoteText(sh.note) \o <<".">>
      [] sh.form = "insertion_bang" -> <<"i", "n", "s", "e", "r", "t", "i", "o", "n", "-">> \o NoteText(sh.note) \o <<"!">>
      [] sh.form = "insertion_deletion" ->
            <<"i", "n", "s", "e", "r", "t", "i", "o", "n", "-">> \o NoteText(sh.note) \o <<".">>
            \o SnoteText(sh.snote) \o <<"-", "d", "e", "l", "e", "t", "i", "o", "n", ".">>
      [] sh.form = "note_note_v1" ->
            NoteText(sh.note) \o <<"-">> \o NoteText(sh.fields)
      [] sh.form = "sustain" -> <<"s", "u", "s", "t", "a", "i", "n", "(">> \o Join(sh.fields, ",") \o <<")", ".">>
      [] sh.form = "soft" -> <<"s", "o", "f", "t", "(">> \o Join(sh.fields, ",") \o <<")", ".">>
      [] sh.form = "info" -> <<"i", "n", "f", "o", "(">> \o Join(sh.fields, ",") \o <<")", ".">>
      [] sh.form = "meta" -> <<"m", "e", "t", "a", "(">> \o Join(sh.fields, ",") \o <<")", ".">>
      [] sh.form = "other" -> <<>>

TextOf(sh) == sh.pre \o BodyOf(sh) \o sh.post

\* The field texts of the examples in the module's __main__ block.
BaseSnote ==
    << <<"1", "-", "1">>, <<"E">>, <<"n">>, <<"4">>, <<"0">>, <<"1">>, <<"0">>, <<"1", "/", "4">>, <<"-", "1", ".", "0">>,
       <<"0", ".", "0">>, <<"s", "t", "a", "f", "f", "1">> >>
BaseNote ==
    << <<"0">>, <<"E">>, <<"n">>, <<"4">>, <<"4", "7", "1", "7", "2", "0">>, <<"4", "7", "2", "3", "9", "7">>, <<"4", "7", "2", "3", "9", "7">>, <<"4", "9">> >>
BaseNoteV1 ==
    << <<"0">>, <<"E">>, <<"n">>, <<"4">>, <<"4", "7", "1", "7", "2", "0">>, <<"4", "7", "2", "3", "9", "7">>, <<"4", "9">> >>
BaseInfo == << <<"m", "a", "t", "c", "h", "F", "i", "l", "e", "V", "e", "r", "s", "i", "o", "n">>, <<"4", ".", "0">> >>
BaseMeta == << <<"k", "e", "y", "S", "i", "g", "n", "a", "t", "u", "r", "e">>, <<"C", " ", "M", "a", "j", "/", "A", " ", "m", "i", "n">>, <<"0">>, <<"-", "1", ".", "0">> >>
BaseSustain == << <<"7", "7", "9">>, <<"5", "9">> >>

\* base, and base with one field replaced by one of its alternatives.
Variants(base, alts) ==
    {base} \cup UNION { { [base EXCEPT ![k] = a] : a \in alts[k] } :
                        k \in DOMAIN alts }


NoAlt == {}

\* Alternatives of the score note's fields: a lower-case letter and a rest,
\* a non-integer and a float octave, offsets and durations in other
\* notations, attribute lists that are empty, numeric, or of two tags.
SnoteAlts ==
    << { <<"0", "0", "7">> }, { <<"e">>, <<"r">> }, NoAlt, { <<"x">>, <<"4", ".", "0">> }, NoAlt, NoAlt,
       { <<"1", "/", "2">>, <<"0", ".", "5">>, <<"x">> }, { <<"1", "/", "3">>, <<"2", "/", "4">>, <<"1">>, <<"q">> },
       { <<"1", "/", "4">> }, NoAlt, { <<>>, <<"1">>, <<"s", ",", "t">> } >>

\* Alternatives of the performed note's fields: another spelling, a
\* lower-case letter, an invalid letter, a number for a letter, a
\* non-integer octave and velocity.
NoteAlts ==
    << { <<" ", "0">> }, { <<"e">>, <<"F">>, <<"H">>, <<"5">> }, { <<"#">> }, { <<"5">>, <<"x">> },
       NoAlt, NoAlt, { <<"1", "/", "0">> }, { <<"v">> } >>

NoteV1Alts ==
    << NoAlt, { <<"e">>, <<"H">> }, NoAlt, NoAlt, NoAlt, NoAlt, { <<"v">> } >>

SnoteTexts == Variants(BaseSnote, SnoteAlts)
NoteTexts == Variants(BaseNote, NoteAlts)
NoteV1Texts == Variants(BaseNoteV1, NoteV1Alts)

RECURSIVE Pads(_)
Pads(n) == IF n = 0 THEN { <<>> } ELSE Pads(n - 1) \cup { p \o <<"x">> : p \in Pads(n - 1) }

PlainShapes ==
    { Shape("sustain", <<>>, <<>>, <<a, b>>, <<>>, <<>>) :
        a \in { <<"7", "7", "9">>, <<" ", "7", "7", "9", " ">>, <<"1", "/", "0">>, <<>> }, b \in { <<"5", "9">>, <<"5", "9", ".", "0">>, <<"+", "5", "9">> } }
    \cup { Shape("soft", <<>>, <<>>, <<a, b>>, <<>>, <<>>) :
        a \in { <<"7", "7", "9">>, <<"0", "7", "7", "9">> }, b \in { <<"5", "9">>, <<"1", "/", "4">> } }
    \cup { Shape("info", <<>>, <<>>, <<a, b>>, <<>>, <<>>) :
        a \in { <<"m", "a", "t", "c", "h", "F", "i", "l", "e", "V", "e", "r", "s", "i", "o", "n">>, <<" ", "a">>, <<"a", " ">> },
        b \in { <<"4", ".", "0">>, <<"4", ".", "0", "0">>, <<"1", "/", "3">>, <<" ", "b">>, <<"s", "u", "s", "t", "a", "i", "n", "(", "1", ",", "2", ")", ".">> } }
    \cup { Shape("meta", <<>>, <<>>, f, <<>>, <<>>) :
        f \in Variants(BaseMeta, << { <<>> }, { <<"C">> }, { <<"0", "0">> }, { <<"-", "1">>, <<" ", "2", ".", "5", "0">> } >>) }

ExampleShapes ==
    { Shape("snote", BaseSnote, <<>>, <<>>, <<>>, <<>>),
      Shape("note", <<>>, BaseNote, <<>>, <<>>, <<>>),
      Shape("note_v1", <<>>, BaseNoteV1, <<>>, <<>>, <<>>),
      Shape("paired", BaseSnote, BaseNote, <<>>, <<>>, <<>>),
      Shape("deletion", BaseSnote, <<>>, <<>>, <<>>, <<>>),
      Shape("insertion", <<>>, BaseNote, <<>>, <<>>, <<>>),
      Shape("info", <<>>, <<>>, BaseInfo, <<>>, <<>>),
      Shape("meta", <<>>, <<>>, BaseMeta, <<>>, <<>>),
      Shape("sustain", <<>>, <<>>, BaseSustain, <<>>, <<>>) }

LineShapes ==
    ExampleShapes
    \cup { Shape("paired", s, n, <<>>, <<>>, <<>>) : s \in SnoteTexts, n \in NoteTexts }
    \cup { Shape("paired_v1", s, BaseNoteV1, <<>>, <<>>, <<>>) : s \in SnoteTexts }
    \cup { Shape("paired_v1", BaseSnote, n, <<>>, <<>>, <<>>) : n \in NoteV1Texts }
    \cup { Shape("paired_open", BaseSnote, BaseNote, <<>>, <<>>, <<>>) }
    \cup { Shape("deletion", s, <<>>, <<>>, <<>>, <<>>) : s \in SnoteTexts }
    \cup { Shape("insertion", <<>>, n, <<>>, <<>>, <<>>) : n \in NoteTexts }
    \cup { Shape("insertion_bang", <<>>, BaseNote, <<>>, <<>>, <<>>) }
    \cup { Shape("insertion_deletion", BaseSnote, BaseNote, <<>>, <<>>, <<>>) }
    \cup { Shape("note_note_v1", <<>>, BaseNote, f, <<>>, <<>>) : f \in NoteV1Texts }
    \cup PlainShapes
    \cup { [sh EXCEPT !.pre = p, !.post = q] :
             sh \in ExampleShapes, p \in Pads(MaxPad), q \in Pads(MaxPad) }
    \cup { Shape("other", <<>>, <<>>, <<>>, p, <<>>) :
             p \in { <<>>, <<"f", "o", "o", "(", "1", ",", "2", ")", ".">>, <<"s", "n", "o", "t", "e", "(", "1", ",", "2", ")", "-", "d", "e", "l", "e", "t", "i", "o", "n", ".">> } }

(***************************************************************************)
(* parse_matchline, and the read of the returned record's matchline that   *)
(* the __main__ block makes.                                               *)
(***************************************************************************)
\* The list with insertion tried before deletion.
from_matchline_methods_swapped ==
    <<"MatchSnoteNote", "MatchInsertionNote", "MatchSnoteDeletion",
      "MatchSustainPedal", "MatchSoftPedal", "MatchInfo", "MatchMeta">>

from_matchline_methods ==
    <<"MatchSnoteNote", "MatchSnoteDeletion", "MatchInsertionNote",
      "MatchSustainPedal", "MatchSoftPedal", "MatchInfo", "MatchMeta">>

from_matchline(kind, l) ==
    CASE kind = "MatchSnoteNote" -> MatchSnoteNote_from_matchline(l)
      [] kind = "MatchSnoteDeletion" -> MatchSnoteDeletion_from_matchline(l)
      [] kind = "MatchInsertionNote" -> MatchInsertionNote_from_matchline(l)
      [] kind = "MatchSustainPedal" -> MatchSustainPedal_from_matchline(l)
      [] kind = "MatchSoftPedal" -> MatchSoftPedal_from_matchline(l)
      [] kind = "MatchInfo" -> MatchInfo_from_matchline(l)
      [] kind = "MatchMeta" -> MatchMeta_from_matchline(l)

\* A handler that catches every exception.
CaughtAny(exc) == exc # "none"

\* except MatchError: continue
Caught(exc) == exc = "MatchError"

Init ==
    /\ call \in { [fn |-> "parse_matchline", l |-> TextOf(sh), shape |-> sh] :
                  sh \in LineShapes }
    /\ pc = "loop"
    /\ idx = 1
    /\ matchline = False
    /\ ret = Built("none", False)
    /\ text = Return(None)

\* One iteration of `for from_matchline in from_matchline_methods`, for the
\* method of class kind: break with the record, continue on MatchError,
\* or let any other exception leave parse_matchline.
Try(kind) ==
    /\ call.fn = "parse_matchline"
    /\ from_matchline_methods[idx] = kind
    /\ \E r \in {from_matchline(kind, call.l)} :
          IF r.exc = "none"
          THEN /\ matchline' = r.obj
               /\ pc' = "return"
               /\ UNCHANGED <<idx, ret>>
          ELSE IF Caught(r.exc)
          THEN /\ idx' = idx + 1
               /\ pc' = IF idx = Len(from_matchline_methods) THEN "return" ELSE "loop"
               /\ UNCHANGED <<matchline, ret>>
          ELSE /\ ret' = Built(r.exc, False)
               /\ pc' = "done"
               /\ UNCHANGED <<idx, matchline>>
    /\ UNCHANGED <<call, text>>

TrySnoteNote == pc = "loop" /\ Try("MatchSnoteNote")
TrySnoteDeletion == pc = "loop" /\ Try("MatchSnoteDeletion")
TryInsertionNote == pc = "loop" /\ Try("MatchInsertionNote")
TrySustainPedal == pc = "loop" /\ Try("MatchSustainPedal")
TrySoftPedal == pc = "loop" /\ Try("MatchSoftPedal")
TryInfo == pc = "loop" /\ Try("MatchInfo")
TryMeta == pc = "loop" /\ Try("MatchMeta")

\* return matchline
ReturnMatchline ==
    /\ pc = "return"
    /\ ret' = Built("none", matchline)
    /\ pc' = "done"
    /\ UNCHANGED <<call, idx, matchline, text>>

\* mo = parse_matchline(ml); mo.matchline
ReadMatchline ==
    /\ pc = "done"
    /\ call.fn = "parse_matchline"
    /\ ret.exc = "none"
    /\ text' = Matchline(ret.obj)
    /\ pc' = "read"
    /\ UNCHANGED <<call, idx, matchline, ret>>

Next ==
    \/ TrySnoteNote
    \/ TrySnoteDeletion
    \/ TryInsertionNote
    \/ TrySustainPedal
    \/ TrySoftPedal
    \/ TryInfo
    \/ TryMeta
    \/ ReturnMatchline
    \/ ReadMatchline

Spec == Init /\ [][Next]_vars


(***************************************************************************)
(* What the dispatcher's grammars accept, read off the patterns alone.     *)
(***************************************************************************)
\* The classes in the order the dispatcher documents.
PriorityOrder ==
    <<"MatchSnoteNote", "MatchSnoteDeletion", "MatchInsertionNote",
      "MatchSustainPedal", "MatchSoftPedal", "MatchInfo", "MatchMeta">>

\* Whether a grammar of the class is found in the line.
Fits(kind, l) ==
    CASE kind = "MatchSnoteNote" ->
            \/ Search(MatchSnoteNote_pattern, l, 0).ok
            \/ Search(MatchSnoteNote_pattern_v1, l, 0).ok
      [] kind = "MatchSnoteDeletion" -> Search(MatchSnoteDeletion_pattern, l, 0).ok
      [] kind = "MatchInsertionNote" -> Search(MatchInsertionNote_pattern, l, 0).ok
      [] kind = "MatchSustainPedal" -> Search(MatchSustainPedal_pattern, l, 0).ok
      [] kind = "MatchSoftPedal" -> Search(MatchSoftPedal_pattern, l, 0).ok
      [] kind = "MatchInfo" -> Search(MatchInfo_pattern, l, 0).ok
      [] kind = "MatchMeta" -> Search(MatchMeta_pattern, l, 0).ok

\* The places in PriorityOrder of the classes with a grammar found in l.
Fitting(l) == {k \in 1..Len(PriorityOrder) : Fits(PriorityOrder[k], l)}

\* The first of them; 0 if there is none.
FirstFitting(l) ==
    IF Fitting(l) = {} THEN 0
    ELSE CHOOSE k \in Fitting(l) : \A j \in Fitting(l) : k <= j

\* parse_matchline has returned or raised.
Done == pc \in {"done", "read"}

\* The example lines of the __main__ block that are complete lines, and
\* the three that are parts of a line.
CompleteExample ==
    /\ call.shape \in ExampleShapes
    /\ call.shape.form \in {"paired", "deletion", "insertion", "info", "meta", "sustain"}
FragmentExample ==
    /\ call.shape \in ExampleShapes
    /\ call.shape.form \in {"snote", "note", "note_v1"}

\* C1 as stated: for each of the nine example lines parse_matchline returns
\* a record whose matchline text is exactly the input line.
C1_NineExamplesRoundTrip ==
    call.shape \in ExampleShapes =>
        /\ Done => ret.exc = "none" /\ ret.obj # False
        /\ pc = "read" => text = Return(StrV(call.l))

\* C1: for each of the six complete example lines (paired, deletion,
\* insertion, info, meta, sustain) parse_matchline returns a record whose
\* matchline text is exactly the input line; for the three fragments (bare
\* snote, bare note, legacy 7-field note) it returns False, which has no
\* matchline.
C1_ExamplesRoundTrip ==
    /\ CompleteExample =>
          /\ Done => ret.exc = "none" /\ ret.obj # False
          /\ pc = "read" => text = Return(StrV(call.l))
    /\ FragmentExample =>
          /\ Done => ret = Built("none", False)
          /\ pc = "read" => text = Raise("AttributeError")

C1_Witness ==
    /\ pc = "read"
    /\ call.shape = Shape("paired", BaseSnote, BaseNote, <<>>, <<>>, <<>>)
    /\ ret.obj.kind = "MatchSnoteNote"
    /\ text = Return(StrV(call.l))

C6_LegacyPairedAccepted ==
    (Done /\ call.shape = Shape("paired_v1", BaseSnote, BaseNoteV1, <<>>, <<>>, <<>>)) =>
        /\ ret.exc = "none"
        /\ ret.obj.kind = "MatchSnoteNote"
        /\ ret.obj.snote # NoSnote
        /\ ret.obj.note.version = LEGACY_VERSION
        /\ ret.obj.note.AdjOffset = ret.obj.note.Offset


(***************************************************************************)
(* The serializer's notation, read off the line's text.                    *)
(***************************************************************************)
\* An integer as str(int) writes it.
CanonNat(t) == IsDigits(t) /\ (Len(t) = 1 \/ t[1] # "0")
CanonInt(t) ==
    \/ CanonNat(t)
    \/ Len(t) > 1 /\ t[1] = "-" /\ CanonNat(Tail(t)) /\ Tail(t) # <<"0">>

\* A float as repr(float) writes it: a short decimal with a digit on both
\* sides of the point and no padding zero.
CanonFloat(t) ==
    \E p \in 2..(Len(t) - 1) :
        /\ t[p] = "."
        /\ CanonInt(SubSeq(t, 1, p - 1))
        /\ IsDigits(SubSeq(t, p + 1, Len(t)))
        /\ (p + 1 = Len(t) \/ t[Len(t)] # "0")
        /\ Len(t) <= 12

\* A text that int(), float() and the rational pattern all leave alone.
CanonText(t) ==
    ~IsIntLiteral(t) /\ ~IsFloatLiteral(t) /\ rational_pattern(t) = <<>>

\* No character that delimits fields.
FieldChars(t) == \A k \in 1..Len(t) : t[k] \notin {",", "(", ")", "[", "]", ":"}
ListChars(t) == \A k \in 1..Len(t) : t[k] \notin {"(", ")", "[", "]"}

CanonAny(t) == FieldChars(t) /\ (CanonInt(t) \/ CanonFloat(t) \/ CanonText(t))

\* str(Fraction.from_float(x)): an integer, or an odd numerator over a
\* power of two.
CanonFraction(t) ==
    \/ CanonInt(t)
    \/ \E p \in 2..(Len(t) - 1) :
          /\ t[p] = "/"
          /\ CanonNat(SubSeq(t, 1, p - 1))
          /\ CanonNat(SubSeq(t, p + 1, Len(t)))
          /\ DigitsVal(SubSeq(t, 1, p - 1)) % 2 = 1
          /\ DigitsVal(SubSeq(t, p + 1, Len(t))) > 1
          /\ IsPow2(DigitsVal(SubSeq(t, p + 1, Len(t))))

CanonSnote(t) ==
    /\ \A k \in {1, 2, 3, 5, 6, 9, 10} : CanonAny(t[k])
    /\ CanonInt(t[4])
    /\ CanonFraction(t[7])
    /\ CanonFraction(t[8]) \/ (CanonText(t[8]) /\ FieldChars(t[8]))
    /\ CanonText(t[11]) /\ ListChars(t[11])

\* The fields of a performed note but its spelling.
CanonTimes(t) ==
    /\ \A k \in {1, 5, 6, 7} : CanonAny(t[k])
    /\ CanonInt(t[8])

CanonPnote(t) ==
    /\ CanonTimes(t)
    /\ CanonText(t[2]) /\ FieldChars(t[2]) /\ Upper(t[2]) = t[2]
    /\ CanonAny(t[3])
    /\ CanonInt(t[4])

CanonPlain(fields) ==
    \A k \in 1..Len(fields) :
        CanonAny(fields[k]) /\ (fields[k] = <<>> \/ fields[k][1] \notin Whitespace)

\* A line of the latest version written the way the serializer writes it.
Canonical(sh) ==
    /\ sh.pre = <<>>
    /\ sh.post = <<>>
    /\ CASE sh.form = "paired" ->
                /\ CanonSnote(sh.snote)
                /\ CanonTimes(sh.note)
                /\ SubSeq(sh.note, 2, 4) = SubSeq(sh.snote, 2, 4)
         [] sh.form = "deletion" -> CanonSnote(sh.snote)
         [] sh.form = "insertion" -> CanonPnote(sh.note)
         [] sh.form \in {"sustain", "soft", "info", "meta"} -> CanonPlain(sh.fields)
         [] OTHER -> FALSE

\* The line with what the constructors replace: a paired line's performed
\* spelling by the score note's, an insertion's NoteName by its upper case.
Normalised(sh) ==
    CASE sh.form = "paired" ->
            [sh EXCEPT !.note = <<sh.note[1]>> \o SubSeq(sh.snote, 2, 4)
                                \o SubSeq(sh.note, 5, 8)]
      [] sh.form = "insertion" /\ CanonText(sh.note[2]) ->
            [sh EXCEPT !.note[2] = Upper(sh.note[2])]
      [] OTHER -> sh

\* A line of the latest version.
LatestLine == call.shape.form \in {"paired", "deletion", "insertion", "sustain", "soft", "info", "meta"}

\* parse_matchline returned a record and its matchline was read.
ReadRecord == pc = "read" /\ ret.obj # False

NoteLineShapes ==
    { Shape("note", <<>>, n, <<>>, p, q) :
        n \in NoteTexts, p \in Pads(MaxPad), q \in Pads(MaxPad) }
    \cup { Shape("note_v1", <<>>, n, <<>>, p, q) :
        n \in NoteV1Texts, p \in Pads(MaxPad), q \in Pads(MaxPad) }
    \cup { sh \in LineShapes : sh.form \in {"snote", "deletion", "info", "other"} }

InitNote ==
    /\ call \in { [fn |-> "MatchPnote.from_matchline", l |-> TextOf(sh), shape |-> sh] :
                  sh \in NoteLineShapes }
    /\ pc = "call"
    /\ idx = 1
    /\ matchline = False
    /\ ret = Built("none", NoPnote)
    /\ text = Return(None)

CallFromMatchline ==
    /\ pc = "call"
    /\ call.fn = "MatchPnote.from_matchline"
    /\ ret' = MatchPnote_from_matchline(call.l)
    /\ pc' = "done"
    /\ UNCHANGED <<call, idx, matchline, text>>

NextNote == CallFromMatchline

SpecNote == InitNote /\ [][NextNote]_vars

\* Whether the 8-field and the 7-field grammar are found in the line.
FitsLatest(l) == Search(MatchPnote_pattern, l, 0).ok
FitsLegacy(l) == Search(MatchPnote_pattern_v1, l, 0).ok

\* C5: MatchPnote.from_matchline tries the 8-field grammar first and the
\* 7-field legacy grammar only if the first fails: a note built from a line
\* with 8 fields has the latest version and AdjOffset equal to the 7th
\* field; a note built from a line with only 7 fields has version 1.0,
\* AdjOffset equal to Offset and Velocity equal to the 7th field; a line
\* fitting neither grammar raises MatchError.
C5_VersionFallback ==
    (pc = "done" /\ call.fn = "MatchPnote.from_matchline") =>
        /\ ret.exc = "MatchError" <=> (~FitsLatest(call.l) /\ ~FitsLegacy(call.l))
        /\ (ret.exc = "none" /\ FitsLatest(call.l)) =>
              /\ ret.obj.version = LATEST_VERSION
              /\ call.shape.form = "note" =>
                    /\ Len(call.shape.note) = 8
                    /\ ret.obj.AdjOffset = interpret_field_rational(call.shape.note[7], FALSE).val
        /\ (ret.exc = "none" /\ ~FitsLatest(call.l)) =>
              /\ FitsLegacy(call.l)
              /\ ret.obj.version = LEGACY_VERSION
              /\ ret.obj.AdjOffset = ret.obj.Offset
              /\ call.shape.form = "note_v1" =>
                    /\ Len(call.shape.note) = 7
                    /\ ret.obj.Velocity = interpret_field_rational(call.shape.note[7], FALSE).val
                    /\ ret.obj.Offset = interpret_field_rational(call.shape.note[6], FALSE).val
        /\ call.shape.form = "note" => FitsLatest(call.l)
        /\ call.shape.form = "note_v1" => ~FitsLatest(call.l) /\ FitsLegacy(call.l)

C5_Witness ==
    /\ pc = "done"
    /\ call.fn = "MatchPnote.from_matchline"
    /\ call.shape.form = "note_v1"
    /\ call.shape.note = BaseNoteV1
    /\ ret.exc = "none"
    /\ ret.obj.version = LEGACY_VERSION
    /\ ret.obj.Offset = IntV(472397)
    /\ ret.obj.AdjOffset = IntV(472397)
    /\ ret.obj.Velocity = IntV(49)


(***************************************************************************)
(* MatchOrnamentNote.from_matchline                                        *)
(***************************************************************************)
\* MatchOrnamentNote.pattern: the anchor between the parentheses is matched
\* but not captured.
MatchOrnamentNote_pattern ==
    Lit(<<"o", "r", "n", "a", "m", "e", "n", "t", "(">>) \o Rep("notrparen", 0, FALSE) \o Lit(<<")", "-">>)
    \o MatchPnote_pattern

\* MatchPnote(**pnote_kwargs) where pnote_kwargs is the list groups[1:]:
\* the argument after ** must be a mapping.
MatchPnote_call_list(pnote_kwargs) == Built("TypeError", NoPnote)

\* cls(Anchor=anchor, pnote=pnote): __init__ names its parameter `anchor`.
MatchOrnamentNote_call(anchor, pnote) == Built("TypeError", False)

\* MatchOrnamentNote.from_matchline
MatchOrnamentNote_from_matchline(l) ==
    LET built(anchor, pnote) ==
            IF pnote.exc # "none" THEN Built(pnote.exc, False)
            ELSE MatchOrnamentNote_call(anchor, pnote.obj)
        interpreted(g) ==
            IF g.exc # "none" THEN Built(g.exc, False)
            ELSE built(g.vals[1], MatchPnote_call_list(Tail(g.vals)))
        searched(m) ==
            IF ~m.ok THEN Built("MatchError", False)
            ELSE interpreted(InterpretGroups(m.groups))
    IN searched(Search(MatchOrnamentNote_pattern, l, 0))

\* ornament(Anchor)-note(...)
OrnamentText(anchor, note) ==
    <<"o", "r", "n", "a", "m", "e", "n", "t", "(">> \o anchor \o <<")", "-">> \o NoteText(note)

\* Anchor labels: the example's, an empty one, a number, one with a comma.
AnchorTexts == { <<"1", "-", "1">>, <<>>, <<"7">>, <<"a", ",", "b">> }

\* Ornament lines with performed notes of 8 and of 7 fields, alone and
\* inside other text, and lines of other kinds.
OrnamentCalls ==
    { [fn |-> "MatchOrnamentNote.from_matchline",
       l |-> p \o OrnamentText(a, n) \o q, anchor |-> a, note |-> n, pre |-> p] :
        a \in AnchorTexts, n \in NoteTexts \cup NoteV1Texts,
        p \in Pads(MaxPad), q \in Pads(MaxPad) }
    \cup { [fn |-> "MatchOrnamentNote.from_matchline",
            l |-> TextOf(sh), anchor |-> <<>>, note |-> <<>>, pre |-> <<>>] :
            sh \in ExampleShapes }

InitOrnament ==
    /\ call \in OrnamentCalls
    /\ pc = "call"
    /\ idx = 1
    /\ matchline = False
    /\ ret = Built("none", False)
    /\ text = Return(None)

CallOrnament ==
    /\ pc = "call"
    /\ call.fn = "MatchOrnamentNote.from_matchline"
    /\ ret' = MatchOrnamentNote_from_matchline(call.l)
    /\ pc' = "done"
    /\ UNCHANGED <<call, idx, matchline, text>>

NextOrnament == CallOrnament

SpecOrnament == InitOrnament /\ [][NextOrnament]_vars

\* C11 as stated: MatchOrnamentNote.from_matchline applied to a line
\* ornament(Anchor)-note(...) with a well-formed 8-field performed note
\* returns an ornament record whose Anchor is the label between the
\* parentheses and whose performed note carries the eight note fields; it
\* raises (MatchError) only when the line does not fit the ornament grammar.
C11_OrnamentParsed ==
    (pc = "done" /\ call.fn = "MatchOrnamentNote.from_matchline") =>
        /\ (call.note = BaseNote /\ call.pre = <<>>) =>
              /\ ret.exc = "none"
              /\ ret.obj.kind = "MatchOrnamentNote"
              /\ ret.obj.fields = << interpret_field_rational(call.anchor, FALSE).val >>
              /\ ret.obj.note.Number = IntV(0)
              /\ ret.obj.note.Velocity = IntV(49)
        /\ ret.exc # "none" =>
              /\ ret.exc = "MatchError"
              /\ ~Search(MatchOrnamentNote_pattern, call.l, 0).ok


(***************************************************************************)
(* The MatchPnote constructor given a MIDI number and no complete          *)
(* spelling.                                                               *)
(***************************************************************************)
InitBackfill ==
    /\ call \in { [fn |-> "MatchPnote", Number |-> IntV(0), NoteName |-> n,
                   Modifier |-> None, Octave |-> o, Onset |-> IntV(1),
                   Offset |-> IntV(2), AdjOffset |-> IntV(3), Velocity |-> v,
                   MidiPitch |-> IntV(m), version |-> LATEST_VERSION] :
                  n \in { None, StrV(<<"H">>) }, o \in { None, IntV(4) },
                  v \in VelocityArgs, m \in 0..MaxBackfillMidi }
    /\ pc = "call"
    /\ idx = 0
    /\ matchline = False
    /\ ret = Built("none", NoPnote)
    /\ text = Return(None)

SpecBackfill == InitBackfill /\ [][NextPnote]_vars

\* A MIDI number is given, no part of the spelling is, and the Velocity is
\* an integer.
BackfillCase ==
    /\ ConstructedPnote
    /\ call.NoteName = None /\ call.Modifier = None /\ call.Octave = None
    /\ call.MidiPitch.t = "int"
    /\ call.Velocity.t = "int"

\* C12: for every MIDI number m in 0..127, constructing a performed note
\* with MidiPitch = m and no spelling succeeds; the stored spelling has a
\* natural or sharp modifier and Octave = m div 12 - 1;
\* pitch_name_2_midi_PC of the stored spelling returns m; and the stored
\* MidiPitch is (m, m mod 12).
C12_BackfillConsistent ==
    BackfillCase =>
        /\ ret.exc = "none"
        /\ ret.obj.NoteName.t = "str" /\ ret.obj.NoteName.s \in NOTE_NAMES
        /\ ret.obj.Modifier \in { StrV(<<"n">>), StrV(<<"#">>) }
        /\ ret.obj.Octave = IntV(call.MidiPitch.n \div 12 - 1)
        /\ pitch_name_2_midi_PC(ret.obj.Modifier, ret.obj.NoteName.s,
                                ret.obj.Octave.n)
              = PitchResult("none", call.MidiPitch.n, call.MidiPitch.n % 12)
        /\ ret.obj.MidiPitch = <<call.MidiPitch.n, call.MidiPitch.n % 12>>

C12_Witness ==
    /\ BackfillCase
    /\ call.MidiPitch = IntV(61)
    /\ ret.exc = "none"
    /\ ret.obj.NoteName = StrV(<<"C">>)
    /\ ret.obj.Modifier = StrV(<<"#">>)
    /\ ret.obj.Octave = IntV(4)
    /\ ret.obj.MidiPitch = <<61, 1>>


(***************************************************************************)
(* The performed note held by a record that parse_matchline returns.       *)
(***************************************************************************)
HoldsPerformedNote ==
    /\ Done
    /\ call.fn = "parse_matchline"
    /\ ret.exc = "none"
    /\ ret.obj.kind \in { "MatchSnoteNote", "MatchInsertionNote" }

\* C13 as stated: every performed note in a record returned by
\* parse_matchline (the note of a paired line or of an insertion line) has a
\* NoteName that is one of the upper-case letters C, D, E, F, G, A, B and
\* an integer Octave, also after a paired line has overwritten the note's
\* spelling with its score note's.
C13_PerformedNoteValidated ==
    HoldsPerformedNote =>
        /\ ret.obj.note.NoteName.t = "str"
        /\ ret.obj.note.NoteName.s \in NOTE_NAMES
        /\ ret.obj.note.Octave.t = "int"

=============================================================================
